---- MODULE Spec2Model ----
(***************************************************************************)
(* array-as-struct: the attribute macro `array_as_struct` rewrites a       *)
(* named-field struct into a tuple struct over one array, and generates    *)
(* the helper types Value / Refs / Muts / Index with the conversions.      *)
(*                                                                         *)
(* The module has two parts.                                               *)
(*   1. The macro expansion array_as_struct_helper (derive/src/lib.rs) as  *)
(*      a state machine over one input declaration: data match, generic    *)
(*      normalisation, the field_info closure run once per field, the      *)
(*      multiunzip, abort_if_dirty, and the quote! emission.               *)
(*   2. The generated code at run time: a wrapper instance `f` built with  *)
(*      from_val / from_array, written through IndexMut and muts(), read   *)
(*      through refs(), and consumed by val() / to_array().                *)
(*                                                                         *)
(* Zero-based Rust positions are kept as the code has them (field_index    *)
(* and the usize returned by Index::f()); TLA+ sequences are one-based, so *)
(* array element i of the code is arr[i + 1] here.                         *)
(***************************************************************************)
EXTENDS Integers, Sequences, FiniteSets, TLC

(***************************************************************************)
(* Bounds of the model.                                                    *)
(***************************************************************************)
\* most fields a declaration has
MaxFields == 3
\* most fields of a declaration whose generated code is run
MaxRunFields == 2
\* most generic parameters a declaration has
MaxGenerics == 1
\* field values are drawn from 0..MaxVal
MaxVal == 1

(***************************************************************************)
(* Option<T>: None is the empty sequence, Some(x) the one-element one.     *)
(***************************************************************************)
None == <<>>
Some(x) == <<x>>

(***************************************************************************)
(* The input declaration (syn::DeriveInput).                               *)
(***************************************************************************)
FieldNames == {"bar", "baz", "qux", "quux"}
Types == {"u32", "u16"}
\* Type::Tuple with no elements, the `()` of unwrap_or
UnitType == "()"
Vals == 0..MaxVal

\* the ident of the generic parameter at position k
GenericIdents == <<"F", "D", "G">>

RECURSIVE SeqsUpTo(_, _)
\* all sequences over S of length at most n
SeqsUpTo(S, n) ==
    IF n = 0 THEN {<<>>}
    ELSE LET shorter == SeqsUpTo(S, n - 1)
         IN  shorter \cup {Append(s, x) : s \in {t \in shorter : Len(t) = n - 1}, x \in S}

Injective(s) == \A i, j \in 1..Len(s) : s[i] = s[j] => i = j

\* GenericParam::Lifetime: attrs, lifetime, bounds
LifetimeParams(id) ==
    [kind : {"lifetime"}, ident : {id}, attrs : {<<"cfg">>},
     bounds : {<<>>, <<"'static">>}, default : {None}]
\* GenericParam::Type: attrs, ident, bounds, default
TypeParams(id) ==
    [kind : {"type"}, ident : {id}, attrs : {<<>>, <<"cfg">>},
     bounds : {<<>>, <<"Clone">>}, default : {None, Some("u8")}]
\* GenericParam::Const: attrs, ident, ty, default (ty is kept in bounds' place)
ConstParams(id) ==
    [kind : {"const"}, ident : {id}, attrs : {<<"cfg">>},
     bounds : {<<"usize">>}, default : {None, Some("0")}]

GenericParamsAt(k) ==
    LifetimeParams(GenericIdents[k]) \cup TypeParams(GenericIdents[k])
        \cup ConstParams(GenericIdents[k])

RECURSIVE GenericLists(_)
\* generics.params: every list of n parameters
GenericLists(n) ==
    IF n = 0 THEN {<<>>}
    ELSE {Append(g, p) : g \in GenericLists(n - 1), p \in GenericParamsAt(n)}

AllGenerics == UNION {GenericLists(n) : n \in 0..MaxGenerics}

\* syn::Field of Fields::Named: ident is Some(name); its type sits at span
\* TySpan(k) when it is the k-th field
NamedField(name, ty) == [ident |-> Some(name), ty |-> ty, vis |-> "inherited", attrs |-> <<>>]
\* syn::Field of Fields::Unnamed: ident is None
UnnamedField(ty) == [ident |-> None, ty |-> ty, vis |-> "inherited", attrs |-> <<>>]

\* Fields::Named lists: distinct field names, any types
NamedFieldLists ==
    {[k \in 1..Len(ns) |-> NamedField(ns[k], ts[k])] :
        <<ns, ts>> \in {p \in SeqsUpTo(FieldNames, MaxFields) \X SeqsUpTo(Types, MaxFields) :
                          Len(p[1]) = Len(p[2]) /\ Injective(p[1])}}

\* Fields::Unnamed lists
UnnamedFieldLists ==
    {[k \in 1..Len(ts) |-> UnnamedField(ts[k])] : ts \in SeqsUpTo(Types, MaxFields)}

\* the shapes of Data: Data::Struct with Fields::Named, Fields::Unnamed or
\* Fields::Unit, Data::Enum and Data::Union
DeclShapes ==
    [kind : {"named"}, fields : NamedFieldLists]
        \cup [kind : {"tuple"}, fields : UnnamedFieldLists]
        \cup [kind : {"unit", "enum", "union"}, fields : {<<>>}]

Declarations ==
    {[kind |-> s.kind, fields |-> s.fields, generics |-> g] : s \in DeclShapes, g \in AllGenerics}

(***************************************************************************)
(* Spans and diagnostics (proc_macro_error).                               *)
(***************************************************************************)
\* ast.span(): the whole declaration
AstSpan == [node |-> "item", field |-> 0]
\* the span of the type expression of the k-th field (k from 1)
TySpan(k) == [node |-> "ty", field |-> k]

MsgUnsupported == "only named-field structs are supported"
MsgFuture == "type did not match future fields"
MsgPrevious == "type did not match previous fields"

\* abort!(span, msg): the diagnostic that ends the expansion
AbortDiag(span, msg) == [level |-> "abort", span |-> span, msg |-> msg]
\* emit_error!(span, msg): recorded, the expansion goes on
EmitErrorDiag(span, msg) == [level |-> "emit_error", span |-> span, msg |-> msg]

VARIABLES
    decl,                     \* the parsed input (DeriveInput)
    pc,                       \* the statement array_as_struct_helper is at
    status,                   \* "running", "aborted" (abort unwound at pc) or "done"
    generic_params_no_attr,   \* the reference form of the generics
    field_ty,                 \* the Option<Type> slot; a type carries its span
    iter,                     \* position of data.fields.into_iter(): next field
    field_info,               \* what the closure has yielded so far
    attr_fields, vis_fields, ident_fields,  \* the three Vecs of multiunzip
    unified_ty,               \* field_ty after unwrap_or
    field_count,
    diags,                    \* the diagnostics emitted, in order
    output,                   \* the tokens returned: None or Some(artifact)
    f,                        \* run time: the wrapper instance, None when moved
    origin,                   \* run time: how f was constructed and, until written, from what
    last,                     \* run time: per field, the value last written
    result                    \* run time: what val() / to_array() returned

tvars == <<decl, pc, status, generic_params_no_attr, field_ty, iter, field_info,
           attr_fields, vis_fields, ident_fields, unified_ty, field_count, diags, output>>
rvars == <<f, origin, last, result>>
vars == <<tvars, rvars>>

(***************************************************************************)
(* The pure parts of array_as_struct_helper.                               *)
(***************************************************************************)
\* match data { Data::Struct(data) => data, _ => abort!(..) }
IsDataStruct(d) == d.kind \in {"named", "tuple", "unit"}

\* the closure of the .map over generic_params: one parameter
NoAttr(gen) ==
    CASE gen.kind = "lifetime" ->
            [kind |-> "lifetime", ident |-> gen.ident, attrs |-> <<>>,
             bounds |-> <<>>, default |-> None]
      [] gen.kind = "type" -> gen
      [] gen.kind = "const" ->
            [kind |-> "type", ident |-> gen.ident, attrs |-> <<>>,
             bounds |-> <<>>, default |-> None]

\* generic_params.iter().map(..).collect()
GenericParamsNoAttr(params) == [k \in 1..Len(params) |-> NoAttr(params[k])]

NoStepDiags == <<>>

\* match field_ty.take() { .. }: the slot and the field's type (both carry
\* their span, and `!=` compares the type expressions only). Yields the new
\* slot, the diagnostics emitted and whether abort! unwound.
\*
\* Faulty variant: a matching field replaces the slot (field_ty = Some(field.ty)).
UnifyMutKeepLatest(slot, ty) ==
    IF slot = None
    THEN [slot |-> Some(ty), diags |-> NoStepDiags, abort |-> FALSE]
    ELSE IF slot[1].ty # ty.ty
    THEN [slot |-> None,
          diags |-> <<EmitErrorDiag(slot[1].span, MsgFuture),
                      AbortDiag(ty.span, MsgPrevious)>>,
          abort |-> TRUE]
    ELSE [slot |-> Some(ty), diags |-> NoStepDiags, abort |-> FALSE]

\* Faulty variant: the second diagnostic is emit_error! too, so nothing unwinds.
UnifyMutNoAbort(slot, ty) ==
    IF slot = None
    THEN [slot |-> Some(ty), diags |-> NoStepDiags, abort |-> FALSE]
    ELSE IF slot[1].ty # ty.ty
    THEN [slot |-> None,
          diags |-> <<EmitErrorDiag(slot[1].span, MsgFuture),
                      EmitErrorDiag(ty.span, MsgPrevious)>>,
          abort |-> FALSE]
    ELSE [slot |-> slot, diags |-> NoStepDiags, abort |-> FALSE]

\* The code.
Unify(slot, ty) ==
    IF slot = None
    THEN [slot |-> Some(ty), diags |-> NoStepDiags, abort |-> FALSE]
    ELSE IF slot[1].ty # ty.ty
    THEN [slot |-> None,
          diags |-> <<EmitErrorDiag(slot[1].span, MsgFuture),
                      AbortDiag(ty.span, MsgPrevious)>>,
          abort |-> TRUE]
    ELSE [slot |-> slot, diags |-> NoStepDiags, abort |-> FALSE]

\* field_ty.unwrap_or(Type::Tuple(..)): the type expression alone
\* (faulty variant: the default is not the unit type)
UnwrapOrUnitMut(slot) == IF slot = None THEN "u32" ELSE slot[1].ty

UnwrapOrUnit(slot) == IF slot = None THEN UnitType ELSE slot[1].ty

\* vis_fields.len()
FieldCount(vis) == Len(vis)

\* let field_index = 0usize..; the k-th element (k from 1) of the range
\* (faulty variant: the range starts at 1)
FieldIndexMut(k) == k

FieldIndex(k) == k - 1

\* abort_if_dirty(): whether any error diagnostic has been emitted
IsDirty(ds) == \E k \in 1..Len(ds) : ds[k].level \in {"emit_error", "abort"}

Min2(a, b) == IF a < b THEN a ELSE b

\* quote!( .. ): the generated declarations. A repetition #( .. )* runs over
\* the shortest of the sequences it interpolates.
Quote(gens, gens_no_attr, ty, count, attrs, vis, idents) ==
    LET n == Min2(Len(attrs), Min2(Len(vis), Len(idents)))
    IN  [generic_params |-> gens,
         self_generics  |-> gens_no_attr,
         array_ty       |-> ty,
         array_len      |-> count,
         value_fields   |-> [k \in 1..n |-> [attrs |-> attrs[k], vis |-> vis[k],
                                            ident |-> idents[k], ty |-> ty]],
         refs_fields    |-> [k \in 1..n |-> [attrs |-> attrs[k], vis |-> vis[k],
                                            ident |-> idents[k], ty |-> <<"&", ty>>]],
         muts_fields    |-> [k \in 1..n |-> [attrs |-> attrs[k], vis |-> vis[k],
                                            ident |-> idents[k], ty |-> <<"&mut", ty>>]],
         index_fns      |-> [k \in 1..Len(idents) |-> [ident |-> idents[k],
                                                        ret |-> FieldIndex(k)]],
         ident_fields   |-> idents]

(***************************************************************************)
(* The expansion, one statement at a time.                                 *)
(***************************************************************************)
TransformInit ==
    /\ pc = "match_data"
    /\ status = "running"
    /\ generic_params_no_attr = <<>>
    /\ field_ty = None
    /\ iter = 1
    /\ field_info = <<>>
    /\ attr_fields = <<>>
    /\ vis_fields = <<>>
    /\ ident_fields = <<>>
    /\ unified_ty = None
    /\ field_count = 0
    /\ diags = <<>>
    /\ output = None

RuntimeInit ==
    /\ f = None
    /\ origin = None
    /\ last = None
    /\ result = None

Init ==
    /\ decl \in Declarations
    /\ TransformInit
    /\ RuntimeInit

\* lines 52-55
MatchData ==
    /\ status = "running" /\ pc = "match_data"
    /\ IF IsDataStruct(decl)
       THEN /\ pc' = "generics"
            /\ UNCHANGED <<status, diags>>
       ELSE /\ diags' = Append(diags, AbortDiag(AstSpan, MsgUnsupported))
            /\ status' = "aborted"
            /\ UNCHANGED pc
    /\ UNCHANGED <<decl, generic_params_no_attr, field_ty, iter, field_info, attr_fields,
                   vis_fields, ident_fields, unified_ty, field_count, output, rvars>>

\* lines 59-79
NormalizeGenerics ==
    /\ status = "running" /\ pc = "generics"
    /\ generic_params_no_attr' = GenericParamsNoAttr(decl.generics)
    /\ pc' = "field_info"
    /\ UNCHANGED <<decl, status, field_ty, iter, field_info, attr_fields, vis_fields,
                   ident_fields, unified_ty, field_count, diags, output, rvars>>

\* lines 82-96: multiunzip pulls the next field through the closure
FieldInfoNext ==
    /\ status = "running" /\ pc = "field_info"
    /\ iter <= Len(decl.fields)
    /\ LET field == decl.fields[iter]
           u == Unify(field_ty, [ty |-> field.ty, span |-> TySpan(iter)])
       IN  IF field.ident = None
           THEN /\ diags' = Append(diags, AbortDiag(AstSpan, MsgUnsupported))
                /\ status' = "aborted"
                /\ UNCHANGED <<field_ty, field_info>>
           ELSE /\ field_ty' = u.slot
                /\ diags' = diags \o u.diags
                /\ IF u.abort
                   THEN /\ status' = "aborted"
                        /\ UNCHANGED field_info
                   ELSE /\ field_info' = Append(field_info,
                                                <<field.attrs, field.vis, field.ident[1]>>)
                        /\ UNCHANGED status
    /\ iter' = iter + 1
    /\ UNCHANGED <<decl, pc, generic_params_no_attr, attr_fields, vis_fields, ident_fields,
                   unified_ty, field_count, output, rvars>>

\* lines 97-105: the iterator is exhausted
Multiunzip ==
    /\ status = "running" /\ pc = "field_info"
    /\ iter > Len(decl.fields)
    /\ attr_fields' = [k \in 1..Len(field_info) |-> field_info[k][1]]
    /\ vis_fields' = [k \in 1..Len(field_info) |-> field_info[k][2]]
    /\ ident_fields' = [k \in 1..Len(field_info) |-> field_info[k][3]]
    /\ unified_ty' = Some(UnwrapOrUnit(field_ty))
    /\ field_count' = FieldCount(vis_fields')
    /\ pc' = "abort_if_dirty"
    /\ UNCHANGED <<decl, status, generic_params_no_attr, field_ty, iter, field_info,
                   diags, output, rvars>>

\* line 107
AbortIfDirty ==
    /\ status = "running" /\ pc = "abort_if_dirty"
    /\ IF IsDirty(diags)
       THEN /\ status' = "aborted"
            /\ UNCHANGED pc
       ELSE /\ pc' = "quote"
            /\ UNCHANGED status
    /\ UNCHANGED <<decl, generic_params_no_attr, field_ty, iter, field_info, attr_fields,
                   vis_fields, ident_fields, unified_ty, field_count, diags, output, rvars>>

\* lines 109-306
Emit ==
    /\ status = "running" /\ pc = "quote"
    /\ output' = Some(Quote(decl.generics, generic_params_no_attr, unified_ty[1],
                            field_count, attr_fields, vis_fields, ident_fields))
    /\ status' = "done"
    /\ UNCHANGED <<decl, pc, generic_params_no_attr, field_ty, iter, field_info, attr_fields,
                   vis_fields, ident_fields, unified_ty, field_count, diags, rvars>>

Transform ==
    \/ MatchData
    \/ NormalizeGenerics
    \/ FieldInfoNext
    \/ Multiunzip
    \/ AbortIfDirty
    \/ Emit

Spec == Init /\ [][Transform]_vars

(***************************************************************************)
(* The generated code: the bodies quote! emits, over the artifact `art`.   *)
(* The wrapper `Self(array)` is the one-element tuple <<array>>; a Value   *)
(* is a record from field names to values; a Refs / Muts view holds, per   *)
(* field name, the array element it borrows (its zero-based position).     *)
(***************************************************************************)
\* Self(array)
SelfOf(array) == <<array>>
\* the names a pattern or struct literal #(#ident_fields),* mentions
Idents(art) == {art.ident_fields[k] : k \in 1..Len(art.ident_fields)}
\* the Value records of the generated type
Values(art) == [Idents(art) -> Vals]
\* the arrays of the generated type [field_ty; field_count]
Arrays(art) == [1..art.array_len -> Vals]

\* let Self([#(#ident_fields),*]) = self; the k-th name of the pattern is
\* bound to the k-th element: per name, that element's zero-based position
\* (faulty variant first: the names are bound in reverse order)
PatternMutReversed(art) ==
    [n \in Idents(art) |->
        Len(art.ident_fields) - (CHOOSE k \in 1..Len(art.ident_fields) : art.ident_fields[k] = n)]

Pattern(art) ==
    [n \in Idents(art) |->
        (CHOOSE k \in 1..Len(art.ident_fields) : art.ident_fields[k] = n) - 1]

\* fn from_val(value) -> Self { Self([#(value.#ident_fields),*]) }
\* (faulty variant first: the elements are listed in reverse order)
from_val_mut(art, value) ==
    SelfOf([k \in 1..Len(art.ident_fields) |->
               value[art.ident_fields[Len(art.ident_fields) + 1 - k]]])

from_val(art, value) ==
    SelfOf([k \in 1..Len(art.ident_fields) |-> value[art.ident_fields[k]]])

\* fn val(self) -> Value { let Self([..]) = self; Value { .. } }
\* (faulty variant first: built from the reversed pattern)
val_mut(art, self) ==
    [n \in Idents(art) |-> self[1][PatternMutReversed(art)[n] + 1]]

val(art, self) ==
    [n \in Idents(art) |-> self[1][Pattern(art)[n] + 1]]

\* fn from_array(array) -> Self { Self(array) }
from_array(array) == SelfOf(array)

\* fn to_array(self) -> Self::Array { self.0 }
\* (faulty variant first: the array comes back reversed)
to_array_mut(self) == [k \in 1..Len(self[1]) |-> self[1][Len(self[1]) + 1 - k]]

to_array(self) == self[1]

\* fn refs(&self) -> Refs { let Self([..]) = self; Refs { .. } }
\* (faulty variant first: built from the reversed pattern)
refs_mut(art) == PatternMutReversed(art)

refs(art) == Pattern(art)

\* fn muts(&mut self) -> Muts { let Self([..]) = self; Muts { .. } }
muts(art) == Pattern(art)

\* impl Index { pub const fn #ident_fields() -> usize { #field_index } }
IndexFn(art, n) ==
    (CHOOSE k \in 1..Len(art.index_fns) : art.index_fns[k].ident = n)

Index(art, n) == art.index_fns[IndexFn(art, n)].ret

\* whether self.0[index] is in bounds (the array's own check)
InBounds(self, index) == index >= 0 /\ index < Len(self[1])

\* IndexMut::index_mut followed by the assignment: self.0[index] = x
index_assign(self, index, x) == SelfOf([self[1] EXCEPT ![index + 1] = x])

\* Index::index / a dereference of a borrowed element: self.0[index]
index(self, i) == self[1][i + 1]

(***************************************************************************)
(* A program using the generated type, as tests/test.rs does.              *)
(***************************************************************************)
Art == output[1]
Panicked == result # None /\ result[1].op = "panic"
Runnable == status = "done" /\ ~Panicked

\* the constructor's argument is remembered only while f is as constructed
Overwritten(o) == [ctor |-> o.ctor, value |-> <<>>, array |-> <<>>, written |-> TRUE]

\* the value last written to each field written so far
Written(n, x) == [m \in DOMAIN last \cup {n} |-> IF m = n THEN x ELSE last[m]]

\* let mut f = Foo::from_val(Value { .. }); the program holds one wrapper at
\* a time, so a new one is built when none is live
FromVal ==
    /\ Runnable /\ f = None
    /\ \E value \in Values(Art) :
        /\ f' = Some(from_val(Art, value))
        /\ origin' = Some([ctor |-> "from_val", value |-> value, array |-> <<>>,
                           written |-> FALSE])
        /\ last' = value
    /\ result' = None
    /\ UNCHANGED tvars

\* let mut f = <Foo as ArrayStruct>::from_array(array);
FromArray ==
    /\ Runnable /\ f = None
    /\ \E array \in Arrays(Art) :
        /\ f' = Some(from_array(array))
        /\ origin' = Some([ctor |-> "from_array", value |-> <<>>, array |-> array,
                           written |-> FALSE])
    /\ last' = <<>>
    /\ result' = None
    /\ UNCHANGED tvars

\* f[<Foo as ArrayStruct>::Index::n()] = x;
IndexAssign ==
    /\ Runnable /\ f # None
    /\ \E n \in Idents(Art), x \in Vals :
        IF InBounds(f[1], Index(Art, n))
        THEN /\ f' = Some(index_assign(f[1], Index(Art, n), x))
             /\ origin' = Some(Overwritten(origin[1]))
             /\ last' = Written(n, x)
             /\ result' = None
        ELSE /\ f' = None
             /\ result' = Some([op |-> "panic", value |-> <<>>])
             /\ UNCHANGED <<origin, last>>
    /\ UNCHANGED tvars

\* *f.muts().n = x;
MutsAssign ==
    /\ Runnable /\ f # None
    /\ \E n \in Idents(Art), x \in Vals :
        /\ f' = Some(index_assign(f[1], muts(Art)[n], x))
        /\ last' = Written(n, x)
    /\ origin' = Some(Overwritten(origin[1]))
    /\ result' = None
    /\ UNCHANGED tvars

\* let r = f.refs(); every field read through it
ReadRefs ==
    /\ Runnable /\ f # None
    /\ result' = Some([op |-> "refs",
                       value |-> [n \in Idents(Art) |-> index(f[1], refs(Art)[n])]])
    /\ UNCHANGED <<f, origin, last, tvars>>

\* let v = f.val(); f is moved
Val ==
    /\ Runnable /\ f # None
    /\ result' = Some([op |-> "val", value |-> val(Art, f[1])])
    /\ f' = None
    /\ UNCHANGED <<origin, last, tvars>>

\* let a = f.to_array(); f is moved
ToArray ==
    /\ Runnable /\ f # None
    /\ result' = Some([op |-> "to_array", value |-> to_array(f[1])])
    /\ f' = None
    /\ UNCHANGED <<origin, last, tvars>>

Run ==
    \/ FromVal
    \/ FromArray
    \/ IndexAssign
    \/ MutsAssign
    \/ ReadRefs
    \/ Val
    \/ ToArray

InitRun ==
    /\ decl \in {d \in Declarations : d.generics = <<>> /\ Len(d.fields) <= MaxRunFields}
    /\ TransformInit
    /\ RuntimeInit

NextRun == Transform \/ Run

SpecRun == InitRun /\ [][NextRun]_vars

(***************************************************************************)
(* Properties.                                                             *)
(***************************************************************************)
Terminated == status \in {"done", "aborted"}
\* the number of declared fields and the name declared at zero-based position k
N == Len(decl.fields)
NameAt(k) == decl.fields[k + 1].ident[1]
\* field j (from 1) declares a type that differs from an earlier field's
Conflicts(j) == \E i \in 1..(j - 1) : decl.fields[i].ty # decl.fields[j].ty
HasMismatch == \E j \in 1..N : Conflicts(j)
FirstConflict == CHOOSE j \in 1..N : Conflicts(j) /\ \A i \in 1..(j - 1) : ~Conflicts(i)
RefsRead == result # None /\ result[1].op = "refs"
Fresh(ctor) == origin # None /\ origin[1].ctor = ctor /\ ~origin[1].written

\* C1: a read of a field through refs() yields the value last written to that
\* field through Index::f() or muts().f, or the value from_val was given when
\* the field was never written; writes to other fields do not change it.
C1_RefsObserveLastWrite ==
    RefsRead =>
        /\ origin[1].ctor = "from_val" => DOMAIN last = {NameAt(k) : k \in 0..(N - 1)}
        /\ \A n \in DOMAIN last : result[1].value[n] = last[n]

\* C1 witness: a two-field wrapper built by from_val, written since, and read
\* through refs(), its two fields holding different values.
C1_Witness ==
    /\ RefsRead
    /\ origin[1].ctor = "from_val" /\ origin[1].written
    /\ N = 2
    /\ last[NameAt(0)] # last[NameAt(1)]

\* C2: the Index type has exactly one function per declared field name, the
\* function of the field declared at zero-based position k returns k, and the
\* N names map onto 0..N-1 without collision.
C2_IndexCorrect ==
    (status = "done" /\ decl.kind = "named") =>
        LET fns == output[1].index_fns
        IN  /\ Len(fns) = N
            /\ \A k \in 0..(N - 1) :
                 /\ Cardinality({j \in 1..Len(fns) : fns[j].ident = NameAt(k)}) = 1
                 /\ \A j \in 1..Len(fns) : fns[j].ident = NameAt(k) => fns[j].ret = k
            /\ {fns[j].ret : j \in 1..Len(fns)} = 0..(N - 1)
            /\ \A i, j \in 1..Len(fns) : fns[i].ret = fns[j].ret => i = j

\* C2 witness: a three-field declaration has been expanded.
C2_Witness == status = "done" /\ decl.kind = "named" /\ N = 3

\* C3: from_val(v) yields a wrapper whose array has exactly N elements, the
\* element at position k being v's value of the field declared at position k.
C3_FromValLayout ==
    (f # None /\ Fresh("from_val")) =>
        /\ output[1].array_len = N
        /\ Len(f[1][1]) = N
        /\ \A k \in 0..(N - 1) : f[1][1][k + 1] = origin[1].value[NameAt(k)]

\* C3 witness: from_val has built a two-field wrapper from distinct values.
C3_Witness ==
    /\ f # None /\ Fresh("from_val")
    /\ N = 2
    /\ origin[1].value[NameAt(0)] # origin[1].value[NameAt(1)]

\* C4: val(from_val(v)) = v, field for field.
C4_ValRoundTrip ==
    (result # None /\ result[1].op = "val" /\ Fresh("from_val")) =>
        /\ DOMAIN result[1].value = DOMAIN origin[1].value
        /\ \A n \in DOMAIN origin[1].value : result[1].value[n] = origin[1].value[n]

\* C4 witness: val() has been applied to an unwritten from_val wrapper of two
\* fields holding distinct values.
C4_Witness ==
    /\ result # None /\ result[1].op = "val" /\ Fresh("from_val")
    /\ N = 2
    /\ origin[1].value[NameAt(0)] # origin[1].value[NameAt(1)]

\* C5: a named-field declaration in which some field's type differs from an
\* earlier field's fails with exactly one non-fatal diagnostic at the first
\* field's type and one fatal diagnostic at the first conflicting field's
\* type, in this order, and no generated declarations.
C5_MismatchDiagnostics ==
    (decl.kind = "named" /\ HasMismatch /\ Terminated) =>
        /\ status = "aborted"
        /\ output = None
        /\ diags = <<EmitErrorDiag(TySpan(1), MsgFuture),
                     AbortDiag(TySpan(FirstConflict), MsgPrevious)>>

\* C5 witness: the expansion of a declaration whose first two fields agree and
\* whose third field conflicts has ended.
C5_Witness ==
    /\ decl.kind = "named" /\ HasMismatch /\ Terminated
    /\ FirstConflict = 3

\* C6 as claimed: every declaration that is not a named-field struct (enum,
\* union, tuple struct with any number of fields, zero included) fails with
\* the one unsupported-shape diagnostic at the whole declaration and no
\* generated declarations.
C6_NonNamedRejected ==
    (decl.kind # "named" /\ Terminated) =>
        /\ status = "aborted"
        /\ diags = <<AbortDiag(AstSpan, MsgUnsupported)>>
        /\ output = None

\* C7: a declaration with zero named fields expands without any diagnostic:
\* unit element type, an array of length 0, Value / Refs / Muts without
\* fields and an Index without functions.
C7_ZeroFields ==
    (decl.kind = "named" /\ N = 0 /\ Terminated) =>
        /\ status = "done"
        /\ diags = <<>>
        /\ output # None
        /\ output[1].array_ty = UnitType
        /\ output[1].array_len = 0
        /\ output[1].value_fields = <<>>
        /\ output[1].refs_fields = <<>>
        /\ output[1].muts_fields = <<>>
        /\ output[1].index_fns = <<>>

\* C7 witness: the expansion of a zero-field declaration has ended.
C7_Witness == decl.kind = "named" /\ N = 0 /\ Terminated

\* C8: to_array(from_array(a)) = a.
C8_ArrayRoundTrip ==
    (result # None /\ result[1].op = "to_array" /\ Fresh("from_array")) =>
        result[1].value = origin[1].array

\* C8 witness: to_array() has been applied to an unwritten from_array wrapper
\* of two distinct elements.
C8_Witness ==
    /\ result # None /\ result[1].op = "to_array" /\ Fresh("from_array")
    /\ Len(origin[1].array) = 2
    /\ origin[1].array[1] # origin[1].array[2]

\* C9 as claimed: after the first mismatch the scan goes on, every remaining
\* field is visited, and only abort_if_dirty ends the expansion.
C9_ScanContinues ==
    (decl.kind = "named" /\ HasMismatch /\ Terminated) =>
        /\ iter > N
        /\ pc = "abort_if_dirty"

\* C9 as amended: the fatal diagnostic at the first conflicting field ends the
\* expansion at once, inside the field scan: the fields after the conflicting
\* one are never visited and abort_if_dirty is never reached.
C9_AbortsAtFirstMismatch ==
    (decl.kind = "named" /\ HasMismatch /\ Terminated) =>
        /\ status = "aborted"
        /\ pc = "field_info"
        /\ iter - 1 = FirstConflict
        /\ Len(field_info) = FirstConflict - 1

\* C9 witness: the expansion has ended on a mismatch with a field left after
\* the conflicting one.
C9_Witness ==
    /\ decl.kind = "named" /\ HasMismatch /\ Terminated
    /\ FirstConflict < N

\* C10 as claimed: the reference form of the generics keeps number, order and
\* names of the parameters, and every parameter carries its name only: no
\* attributes, no bounds, no default, and no const parameter.
C10_GenericsNamesOnly ==
    (pc \in {"field_info", "abort_if_dirty", "quote"}) =>
        /\ Len(generic_params_no_attr) = Len(decl.generics)
        /\ \A k \in 1..Len(decl.generics) :
            /\ generic_params_no_attr[k].ident = decl.generics[k].ident
            /\ generic_params_no_attr[k].kind =
                   (IF decl.generics[k].kind = "lifetime" THEN "lifetime" ELSE "type")
            /\ generic_params_no_attr[k].attrs = <<>>
            /\ generic_params_no_attr[k].bounds = <<>>
            /\ generic_params_no_attr[k].default = None

====
